---------------------------- MODULE Spec2Model ----------------------------
(***************************************************************************)
(* The PII-redaction guardrail of src/rag_system/crew.py                   *)
(* (check_for_confidential_info) and the task pipeline it is attached to.  *)
(*                                                                         *)
(* Text is a sequence of characters, each character a one-character        *)
(* string.  The two regular expressions are kept as sequences of pattern   *)
(* elements and are run by a backtracking matcher with the semantics of    *)
(* Python's re module on str patterns without flags.                       *)
(***************************************************************************)
EXTENDS Integers, Sequences, FiniteSets, TLC

(***************************************************************************)
(* Bounds of the model.                                                    *)
(***************************************************************************)
\* the longest input text, counted in fragments of Fragments
MaxFragments == 3
\* the number of validation calls that run interleaved under SpecConc
NumCalls == 2
\* the longest evaluation dataset, in entries
MaxDataset == 3

(***************************************************************************)
(* Character classes of Python's re on str patterns (Unicode matching).    *)
(***************************************************************************)
\* \d : the ASCII digits and every other Unicode decimal digit; U+0663 is
\* ARABIC-INDIC DIGIT THREE, one representative of the non-ASCII ones.
Digit ==
    {"0", "1", "2", "3", "4", "5", "6", "7", "8", "9", "U+0663"}

\* \s : Unicode whitespace; U+000B and U+00A0 stand for VT and NBSP.
Whitespace ==
    {" ", "\t", "\n", "\r", "\f", "U+000B", "U+00A0"}

\* [5-9]
MobilePrefix ==
    {"5", "6", "7", "8", "9"}

\* [ .-]
IdSeparator ==
    {" ", ".", "-"}

(***************************************************************************)
(* Pattern elements: a character set with a greedy {min,max} quantifier,   *)
(* or one of the anchors ^ and $.                                          *)
(***************************************************************************)
Rep(S, lo, hi) == [kind |-> "set", set |-> S, min |-> lo, max |-> hi]

Lit(c) == Rep({c}, 1, 1)

One(S) == Rep(S, 1, 1)

Opt(S) == Rep(S, 0, 1)

Bol == [kind |-> "bol", set |-> {}, min |-> 0, max |-> 0]

Eol == [kind |-> "eol", set |-> {}, min |-> 0, max |-> 0]

\* r"\+971\s?[5-9]\s?\d\d{7}": the second optional space one place early
uae_phone_numbers_pattern_split ==
    << Rep({"+"}, 1, 1), Rep({"9"}, 1, 1), Rep({"7"}, 1, 1), Rep({"1"}, 1, 1),
       Rep(Whitespace, 0, 1), Rep(MobilePrefix, 1, 1), Rep(Whitespace, 0, 1),
       Rep(Digit, 1, 1), Rep(Digit, 7, 7) >>

\* r"\+971\s?[5-9]\d\s?\d{7}"
uae_phone_numbers_pattern ==
    << Lit("+"), Lit("9"), Lit("7"), Lit("1"), Opt(Whitespace),
       One(MobilePrefix), One(Digit), Opt(Whitespace), Rep(Digit, 7, 7) >>

\* r"^784[ .-]?\d{4}[ .-]?\d{7}[ .-]?\d{1}$"
uae_national_id_pattern ==
    << Bol, Lit("7"), Lit("8"), Lit("4"), Opt(IdSeparator), Rep(Digit, 4, 4),
       Opt(IdSeparator), Rep(Digit, 7, 7), Opt(IdSeparator), Rep(Digit, 1, 1),
       Eol >>

PH_NO_MASK ==
    <<"*", "*", "*", "*", "P", "H", ".", "N", "O", "*", "*", "*", "*">>

UAE_ID_MASK ==
    <<"*", "*", "*", "*", "U", "A", "E", ".", "I", "D", "*", "*", "*", "*">>

ERROR_MESSAGE ==
    <<"U", "n", "e", "x", "p", "e", "c", "t", "e", "d", " ", "e", "r", "r",
      "o", "r", " ", "d", "u", "r", "i", "n", "g", " ", "v", "a", "l", "i",
      "d", "a", "t", "i", "o", "n">>

(***************************************************************************)
(* The matcher.  Positions are 1-based; MatchHere is the position just     *)
(* after the match of pat[k..] that starts at i, or 0 when there is none.  *)
(***************************************************************************)
RECURSIVE RunLength(_, _, _, _)
\* how many characters from position i on lie in e.set, at most e.max
RunLength(e, s, i, n) ==
    IF n < e.max /\ i + n <= Len(s) /\ s[i + n] \in e.set
    THEN RunLength(e, s, i, n + 1)
    ELSE n

\* ^ under re.MULTILINE: the start of the string and of every line
AtBolMultiline(s, i) == i = 1 \/ (i > 1 /\ i <= Len(s) + 1 /\ s[i - 1] = "\n")

\* ^ without re.MULTILINE: only the start of the string
AtBol(s, i) == i = 1

\* a pattern written without its closing $: nothing is asked of the end
AtEolAnywhere(s, i) == TRUE

\* $ without re.MULTILINE: the end of the string, or just before a newline
\* that ends the string
AtEol(s, i) == i = Len(s) + 1 \/ (i = Len(s) /\ s[i] = "\n")

RECURSIVE MatchHere(_, _, _, _)
RECURSIVE TryCount(_, _, _, _, _)
MatchHere(pat, k, s, i) ==
    IF k > Len(pat) THEN i
    ELSE CASE pat[k].kind = "bol" ->
                IF AtBol(s, i) THEN MatchHere(pat, k + 1, s, i) ELSE 0
           [] pat[k].kind = "eol" ->
                IF AtEol(s, i) THEN MatchHere(pat, k + 1, s, i) ELSE 0
           [] OTHER -> TryCount(pat, k, s, i, RunLength(pat[k], s, i, 0))

\* greedy: the longest run first, then shorter ones down to the minimum
TryCount(pat, k, s, i, n) ==
    IF n < pat[k].min THEN 0
    ELSE LET r == MatchHere(pat, k + 1, s, i + n)
         IN  IF r # 0 THEN r ELSE TryCount(pat, k, s, i, n - 1)

RECURSIVE SearchFrom(_, _, _)
SearchFrom(pat, s, i) ==
    IF i > Len(s) + 1 THEN 0
    ELSE IF MatchHere(pat, 1, s, i) # 0 THEN i
    ELSE SearchFrom(pat, s, i + 1)

\* re.search(pat, s): the start of the leftmost match, 0 for None
re_search(pat, s) == SearchFrom(pat, s, 1)

RECURSIVE SubFrom(_, _, _, _)
SubFrom(pat, repl, s, i) ==
    IF i > Len(s) THEN <<>>
    ELSE LET e == MatchHere(pat, 1, s, i)
         IN  IF e > i THEN repl \o SubFrom(pat, repl, s, e)
             ELSE <<s[i]>> \o SubFrom(pat, repl, s, i + 1)

\* re.sub with count = 1: only the leftmost match is replaced
re_sub_first(pat, repl, s) ==
    LET i == re_search(pat, s)
    IN  IF i = 0 THEN s
        ELSE SubSeq(s, 1, i - 1) \o repl
             \o SubSeq(s, MatchHere(pat, 1, s, i), Len(s))

\* re.sub(pat, repl, s): every non-overlapping match, left to right
re_sub(pat, repl, s) == SubFrom(pat, repl, s, 1)

(***************************************************************************)
(* Python values: the objects handed to the guardrail and the payloads it  *)
(* returns.  A TaskOutput carries its raw text; a str is its own text; a   *)
(* BadStr is an object whose __str__ raises.                               *)
(***************************************************************************)
TaskOutput(t) == [type |-> "TaskOutput", raw |-> t, raises |-> "none"]

PyStr(t) == [type |-> "str", raw |-> t, raises |-> "none"]

BadStr(exc) == [type |-> "BadStr", raw |-> <<>>, raises |-> exc]

None == [type |-> "NoneType", raw |-> <<>>, raises |-> "none"]

\* str(result): the text, or the exception the conversion raises
py_str(v) == [exc |-> v.raises, val |-> v.raw]

\* the classes `except Exception` catches, among those the model raises
ExceptionClasses == {"ValueError", "TypeError"}

\* a handler that names one class only
CaughtValueErrorOnly(exc) == exc = "ValueError"

\* except Exception as e
Caught(exc) == exc \in ExceptionClasses

(***************************************************************************)
(* Input texts: concatenations of at most MaxFragments fragments.          *)
(***************************************************************************)
TokContact ==
    <<"C", "o", "n", "t", "a", "c", "t", " ">>

TokForDetails ==
    <<" ", "f", "o", "r", " ", "d", "e", "t", "a", "i", "l", "s">>

TokIdLabel ==
    <<"I", "D", ":", " ">>

TokNewline ==
    <<"\n">>

TokDigit ==
    <<"5">>

TokPhoneSpaced ==
    <<"+", "9", "7", "1", " ", "5", "0", " ", "1", "2", "3", "4", "5", "6", "7">>

TokPhonePlain ==
    <<"+", "9", "7", "1", "5", "6", "1", "2", "3", "4", "5", "6", "7">>

\* the space after the prefix digit instead of after the second digit
TokPhoneSplitPrefix ==
    <<"+", "9", "7", "1", " ", "5", " ", "0", "1", "2", "3", "4", "5", "6", "7">>

\* a prefix digit outside 5..9
TokPhoneLandline ==
    <<"+", "9", "7", "1", " ", "4", "0", " ", "1", "2", "3", "4", "5", "6", "7">>

TokIdSpaced ==
    <<"7", "8", "4", " ", "1", "2", "3", "4", " ", "1", "2", "3", "4", "5", "6",
      "7", " ", "1">>

TokIdDashed ==
    <<"7", "8", "4", "-", "1", "2", "3", "4", "-", "1", "2", "3", "4", "5", "6",
      "7", "-", "1">>

Fragments ==
    { TokContact, TokForDetails, TokIdLabel, TokNewline, TokDigit,
      TokPhoneSpaced, TokPhonePlain, TokPhoneSplitPrefix, TokPhoneLandline,
      TokIdSpaced, TokIdDashed }

RECURSIVE TextsOf(_)
\* the texts made of exactly n fragments
TextsOf(n) ==
    IF n = 0 THEN {<<>>}
    ELSE {t \o f : t \in TextsOf(n - 1), f \in Fragments}

Texts == UNION {TextsOf(n) : n \in 0..MaxFragments}

(***************************************************************************)
(* State.  Every local of check_for_confidential_info is kept per call.    *)
(***************************************************************************)
VARIABLES
    pc,                \* per call: the stage the call is at
    result,            \* per call: the argument `result`
    content_text,      \* per call: the local content_text
    content_redacted,  \* per call: the local content_redacted
    verdict,           \* per call: the returned (accepted, payload) pair
    trace,             \* per call: the stages executed so far, in order
    printed,           \* per call: what the call has printed
    id_input,          \* per call: the text the national-ID search ran on
    recalled,          \* the running call validates an earlier payload
    prev,              \* that earlier payload
    crew_pc,           \* the task runner: off, synthesis, validate, ...
    retry_count,       \* the task runner's retry counter
    attempts,          \* synthesis attempts made
    guardrail_calls,   \* guardrail invocations made
    task_output,       \* the synthesis output under validation
    golden_dataset,    \* the evaluation script: the entries of the dataset
    kickoffs,          \* what the pipeline did for each entry processed
    results,           \* the list results of main
    questions,         \* the list questions of main
    ground_truths,     \* the list ground_truths of main
    entry_index,       \* how many entries the for loop has taken
    eval_pc            \* main: off, loop, evaluated, crashed

vars ==
    << pc, result, content_text, content_redacted, verdict, trace, printed,
       id_input, recalled, prev, crew_pc, retry_count, attempts,
       guardrail_calls, task_output, golden_dataset, kickoffs, results,
       questions, ground_truths, entry_index, eval_pc >>

callVars ==
    << pc, result, content_text, content_redacted, verdict, trace, printed,
       id_input >>

crewVars == << crew_pc, retry_count, attempts, guardrail_calls, task_output >>

evalVars ==
    << golden_dataset, kickoffs, results, questions, ground_truths,
       entry_index, eval_pc >>

Calls == 1..NumCalls

Terminal == {"Accepted", "RejectedRedacted", "RejectedFault", "Raised"}

NoVerdict == [returned |-> FALSE, accepted |-> FALSE, payload |-> None]

Verdict(ok, payload) ==
    [returned |-> TRUE, accepted |-> ok, payload |-> payload]

\* an assignment that reaches every call's frame, as to a module global
SetShared(f, c, v) == [x \in DOMAIN f |-> v]

\* an assignment to a local name of call c's frame
SetLocal(f, c, v) == [f EXCEPT ![c] = v]

\* if / elif: the national-ID test is skipped once the phone test hit
NextStageElif(stage, hit) ==
    CASE stage = "CheckPhone" -> IF hit THEN "RedactPhone" ELSE "CheckID"
      [] stage = "RedactPhone" -> "Decide"
      [] stage = "CheckID" -> IF hit THEN "RedactID" ELSE "Decide"
      [] stage = "RedactID" -> "Decide"

\* the control flow of the two independent if statements and the final one
NextStage(stage, hit) ==
    CASE stage = "CheckPhone" -> IF hit THEN "RedactPhone" ELSE "CheckID"
      [] stage = "RedactPhone" -> "CheckID"
      [] stage = "CheckID" -> IF hit THEN "RedactID" ELSE "Decide"
      [] stage = "RedactID" -> "Decide"

\* return (True, content_text): the stringified copy
AcceptedPayloadStr(res, text) == PyStr(text)

\* return (True, result)
AcceptedPayload(res, text) == res

\* return (False, str(result)): the text as received, not the masked one
DecisionUnmasked(res, text, redacted) ==
    IF redacted THEN Verdict(FALSE, PyStr(py_str(res).val))
    ELSE Verdict(TRUE, AcceptedPayload(res, text))

\* return (False, content_text) / return (True, result)
Decision(res, text, redacted) ==
    IF redacted THEN Verdict(FALSE, PyStr(text))
    ELSE Verdict(TRUE, AcceptedPayload(res, text))

\* the except clause: traceback.print_exc() and the fixed verdict
FaultVerdict == Verdict(FALSE, PyStr(ERROR_MESSAGE))

(***************************************************************************)
(* check_for_confidential_info as a function of its argument: what one     *)
(* call returns when nothing else runs.  "raised" stands for an exception  *)
(* that leaves the function.                                               *)
(***************************************************************************)
check_for_confidential_info(res) ==
    LET conv == py_str(res)
        t0 == conv.val
        hit1 == re_search(uae_phone_numbers_pattern, t0) # 0
        t1 == IF hit1 THEN re_sub(uae_phone_numbers_pattern, PH_NO_MASK, t0)
              ELSE t0
        hit2 == re_search(uae_national_id_pattern, t1) # 0
        t2 == IF hit2 THEN re_sub(uae_national_id_pattern, UAE_ID_MASK, t1)
              ELSE t1
    IN  IF conv.exc # "none"
        THEN IF Caught(conv.exc) THEN [outcome |-> "returned", verdict |-> FaultVerdict]
             ELSE [outcome |-> "raised", verdict |-> NoVerdict]
        ELSE [outcome |-> "returned", verdict |-> Decision(res, t2, hit1 \/ hit2)]

(***************************************************************************)
(* Initial state: no call is running and the crew has not been started.    *)
(***************************************************************************)
Init ==
    /\ pc = [c \in Calls |-> "Idle"]
    /\ result = [c \in Calls |-> None]
    /\ content_text = [c \in Calls |-> <<>>]
    /\ content_redacted = [c \in Calls |-> FALSE]
    /\ verdict = [c \in Calls |-> NoVerdict]
    /\ trace = [c \in Calls |-> <<>>]
    /\ printed = [c \in Calls |-> <<>>]
    /\ id_input = [c \in Calls |-> <<>>]
    /\ recalled = FALSE
    /\ prev = None
    /\ crew_pc = "off"
    /\ retry_count = 0
    /\ attempts = 0
    /\ guardrail_calls = 0
    /\ task_output = None
    /\ golden_dataset = <<>>
    /\ kickoffs = <<>>
    /\ results = <<>>
    /\ questions = <<>>
    /\ ground_truths = <<>>
    /\ entry_index = 0
    /\ eval_pc = "off"

(***************************************************************************)
(* A call of check_for_confidential_info, one action per stage.            *)
(***************************************************************************)
\* the caller enters the function with argument v
Enter(c, v) ==
    /\ pc' = [pc EXCEPT ![c] = "Start"]
    /\ result' = [result EXCEPT ![c] = v]
    /\ content_text' = [content_text EXCEPT ![c] = <<>>]
    /\ content_redacted' = [content_redacted EXCEPT ![c] = FALSE]
    /\ verdict' = [verdict EXCEPT ![c] = NoVerdict]
    /\ trace' = [trace EXCEPT ![c] = <<>>]
    /\ printed' = [printed EXCEPT ![c] = <<>>]
    /\ id_input' = [id_input EXCEPT ![c] = <<>>]

\* lines 26-47: str(result), the flag, the debug print; lines 70-72 when
\* the conversion raises
Start(c) ==
    /\ pc[c] = "Start"
    /\ trace' = [trace EXCEPT ![c] = Append(@, "Start")]
    /\ LET conv == py_str(result[c])
       IN  IF conv.exc = "none"
           THEN /\ content_text' = SetLocal(content_text, c, conv.val)
                /\ content_redacted' = SetLocal(content_redacted, c, FALSE)
                /\ printed' = [printed EXCEPT ![c] = Append(@, "content_text")]
                /\ pc' = [pc EXCEPT ![c] = "CheckPhone"]
                /\ UNCHANGED verdict
           ELSE IF Caught(conv.exc)
           THEN /\ printed' = [printed EXCEPT ![c] = Append(@, "traceback")]
                /\ verdict' = [verdict EXCEPT ![c] = FaultVerdict]
                /\ pc' = [pc EXCEPT ![c] = "RejectedFault"]
                /\ UNCHANGED << content_text, content_redacted >>
           ELSE /\ pc' = [pc EXCEPT ![c] = "Raised"]
                /\ UNCHANGED << content_text, content_redacted, printed, verdict >>
    /\ UNCHANGED << result, id_input, recalled, prev, crewVars, evalVars >>

\* line 49
CheckPhone(c) ==
    /\ pc[c] = "CheckPhone"
    /\ trace' = [trace EXCEPT ![c] = Append(@, "CheckPhone")]
    /\ pc' = [pc EXCEPT ![c] =
                NextStage("CheckPhone",
                          re_search(uae_phone_numbers_pattern, content_text[c]) # 0)]
    /\ UNCHANGED << result, content_text, content_redacted, verdict, printed,
                    id_input, recalled, prev, crewVars, evalVars >>

\* lines 50-55
RedactPhone(c) ==
    /\ pc[c] = "RedactPhone"
    /\ trace' = [trace EXCEPT ![c] = Append(@, "RedactPhone")]
    /\ content_text' =
          SetLocal(content_text, c,
                   re_sub(uae_phone_numbers_pattern, PH_NO_MASK, content_text[c]))
    /\ content_redacted' = SetLocal(content_redacted, c, TRUE)
    /\ printed' = [printed EXCEPT ![c] = Append(@, "msg1")]
    /\ pc' = [pc EXCEPT ![c] = NextStage("RedactPhone", TRUE)]
    /\ UNCHANGED << result, verdict, id_input, recalled, prev, crewVars, evalVars >>

\* line 57
CheckID(c) ==
    /\ pc[c] = "CheckID"
    /\ trace' = [trace EXCEPT ![c] = Append(@, "CheckID")]
    /\ id_input' = [id_input EXCEPT ![c] = content_text[c]]
    /\ pc' = [pc EXCEPT ![c] =
                NextStage("CheckID",
                          re_search(uae_national_id_pattern, content_text[c]) # 0)]
    /\ UNCHANGED << result, content_text, content_redacted, verdict, printed,
                    recalled, prev, crewVars, evalVars >>

\* lines 58-62 (msg2 is built and never printed)
RedactID(c) ==
    /\ pc[c] = "RedactID"
    /\ trace' = [trace EXCEPT ![c] = Append(@, "RedactID")]
    /\ content_text' =
          SetLocal(content_text, c,
                   re_sub(uae_national_id_pattern, UAE_ID_MASK, content_text[c]))
    /\ content_redacted' = SetLocal(content_redacted, c, TRUE)
    /\ pc' = [pc EXCEPT ![c] = NextStage("RedactID", TRUE)]
    /\ UNCHANGED << result, verdict, printed, id_input, recalled, prev, crewVars, evalVars >>

\* lines 64-69
Decide(c) ==
    /\ pc[c] = "Decide"
    /\ trace' = [trace EXCEPT ![c] = Append(@, "Decide")]
    /\ verdict' = [verdict EXCEPT ![c] =
                      Decision(result[c], content_text[c], content_redacted[c])]
    /\ pc' = [pc EXCEPT ![c] =
                IF content_redacted[c] THEN "RejectedRedacted" ELSE "Accepted"]
    /\ UNCHANGED << result, content_text, content_redacted, printed, id_input,
                    recalled, prev, crewVars, evalVars >>

(***************************************************************************)
(* Callers.                                                                *)
(***************************************************************************)
\* texts in which a national-ID-shaped string starts on the last digit of
\* a phone number: "+97156123456784 1234 1234567 1", alone and after a word
OverlapTexts ==
    { w \o TokPhonePlain \o
        <<"8", "4", " ", "1", "2", "3", "4", " ", "1", "2", "3", "4", "5", "6",
          "7", " ", "1">> : w \in {<<>>, TokContact} }

\* the objects a caller passes: task outputs over Texts and two objects
\* whose string conversion raises
Inputs ==
    {TaskOutput(t) : t \in Texts \cup OverlapTexts}
    \cup {BadStr(e) : e \in ExceptionClasses}

\* a caller validates one object
Call(c) ==
    /\ pc[c] = "Idle"
    /\ \E v \in Inputs : Enter(c, v)
    /\ UNCHANGED << recalled, prev, crewVars, evalVars >>

\* a caller validates again the payload of a redacting verdict
Recall(c) ==
    /\ pc[c] = "RejectedRedacted"
    /\ ~recalled
    /\ Enter(c, verdict[c].payload)
    /\ recalled' = TRUE
    /\ prev' = verdict[c].payload
    /\ UNCHANGED << crewVars, evalVars >>

Next ==
    \/ Call(1)
    \/ Recall(1)
    \/ Start(1)
    \/ CheckPhone(1)
    \/ RedactPhone(1)
    \/ CheckID(1)
    \/ RedactID(1)
    \/ Decide(1)

Spec == Init /\ [][Next]_vars

(***************************************************************************)
(* Concurrent callers: NumCalls calls run interleaved, stage by stage,     *)
(* each on an object of its own.                                           *)
(***************************************************************************)
ConcInputs ==
    { TaskOutput(TokContact),
      TaskOutput(TokPhoneSpaced),
      TaskOutput(TokIdDashed),
      TaskOutput(TokPhonePlain \o TokNewline \o TokIdSpaced),
      BadStr("ValueError") }

ConcCall(c) ==
    /\ pc[c] = "Idle"
    /\ \E v \in ConcInputs : Enter(c, v)
    /\ UNCHANGED << recalled, prev, crewVars, evalVars >>

NextConc ==
    \E c \in Calls :
        \/ ConcCall(c)
        \/ Start(c)
        \/ CheckPhone(c)
        \/ RedactPhone(c)
        \/ CheckID(c)
        \/ RedactID(c)
        \/ Decide(c)

SpecConc == Init /\ [][NextConc]_vars

(***************************************************************************)
(* The synthesis task of create_rag_crew and the task runner that owns     *)
(* the retry loop.  The task is declared with                              *)
(* guardrail = check_for_confidential_info and guardrail_max_retries = 3;  *)
(* the runner itself is the agent framework's.                             *)
(***************************************************************************)
\* a task declared without a retry limit worth the name
guardrail_max_retries_raised == 3 + 2

\* guardrail_max_retries=3
guardrail_max_retries == 3

\* what the synthesis stage may produce in one attempt
SynthesisOutputs == {TaskOutput(t) : t \in TextsOf(0) \cup TextsOf(1)}

\* rag_crew.kickoff(): the research task has run, synthesis is next
Kickoff ==
    /\ crew_pc = "off"
    /\ crew_pc' = "synthesis"
    /\ UNCHANGED << callVars, recalled, prev, retry_count, attempts,
                    guardrail_calls, task_output >>
    /\ UNCHANGED evalVars

\* one synthesis attempt
Synthesize ==
    /\ crew_pc = "synthesis"
    /\ \E v \in SynthesisOutputs : task_output' = v
    /\ attempts' = attempts + 1
    /\ crew_pc' = "validate"
    /\ UNCHANGED << callVars, recalled, prev, retry_count, guardrail_calls >>
    /\ UNCHANGED evalVars

\* the runner hands the attempt's output to the task's guardrail
InvokeGuardrail ==
    /\ crew_pc = "validate"
    /\ Enter(1, task_output)
    /\ guardrail_calls' = guardrail_calls + 1
    /\ crew_pc' = "guardrail"
    /\ UNCHANGED << recalled, prev, retry_count, attempts, task_output >>
    /\ UNCHANGED evalVars

\* the runner reads the verdict: success, another attempt, or giving up
HandleVerdict ==
    /\ crew_pc = "guardrail"
    /\ pc[1] \in Terminal
    /\ IF pc[1] = "Raised"
       THEN /\ crew_pc' = "failed"
            /\ UNCHANGED << retry_count, task_output >>
       ELSE IF verdict[1].accepted
       THEN /\ crew_pc' = "success"
            /\ task_output' = verdict[1].payload
            /\ UNCHANGED retry_count
       ELSE IF retry_count >= guardrail_max_retries
       THEN /\ crew_pc' = "failed"
            /\ UNCHANGED << retry_count, task_output >>
       ELSE /\ retry_count' = retry_count + 1
            /\ crew_pc' = "synthesis"
            /\ UNCHANGED task_output
    /\ UNCHANGED << callVars, recalled, prev, attempts, guardrail_calls >>
    /\ UNCHANGED evalVars

NextCrew ==
    \/ Kickoff
    \/ Synthesize
    \/ InvokeGuardrail
    \/ Start(1)
    \/ CheckPhone(1)
    \/ RedactPhone(1)
    \/ CheckID(1)
    \/ RedactID(1)
    \/ Decide(1)
    \/ HandleVerdict

SpecCrew == Init /\ [][NextCrew]_vars

(***************************************************************************)
(* Vocabulary of the properties.                                           *)
(***************************************************************************)
Done(c) == pc[c] \in Terminal

\* the display string of the call's argument, when the conversion succeeds
Converts(c) == py_str(result[c]).exc = "none"

Text(c) == py_str(result[c]).val

\* a phone number starts at position i of s
PhoneAt(s, i) == MatchHere(uae_phone_numbers_pattern, 1, s, i) # 0

PhoneStarts(s) == {i \in 1..Len(s) : PhoneAt(s, i)}

HasPhone(s) == PhoneStarts(s) # {}

\* the national-ID pattern, as the code writes it, matches s
IdPatternMatches(s) ==
    \E i \in 1..(Len(s) + 1) : MatchHere(uae_national_id_pattern, 1, s, i) # 0

\* the shape of a national ID: the pattern without its two anchors
national_id_shape ==
    SubSeq(uae_national_id_pattern, 2, Len(uae_national_id_pattern) - 1)

\* a national-ID-shaped string starts at position i of s, at the start of a line
IdAtLineStart(s, i) ==
    /\ i = 1 \/ s[i - 1] = "\n"
    /\ MatchHere(national_id_shape, 1, s, i) # 0

HasIdAtLineStart(s) == \E i \in 1..Len(s) : IdAtLineStart(s, i)

RECURSIVE MaskByPosition(_, _, _, _, _)
\* s from position k on, with the occurrences that start at the positions
\* of `starts` (endOf[i] is the position just after the one starting at i)
\* replaced by mask: position by position, the mask where an occurrence
\* starts, nothing where an occurrence that started earlier still runs,
\* the character itself everywhere else
MaskByPosition(s, mask, starts, endOf, k) ==
    IF k > Len(s) THEN <<>>
    ELSE (IF k \in starts THEN mask
          ELSE IF \E i \in starts : i < k /\ endOf[i] > k THEN <<>>
          ELSE <<s[k]>>)
         \o MaskByPosition(s, mask, starts, endOf, k + 1)

\* s with every occurrence of the phone pattern replaced by ****PH.NO****
PhoneMasked(s) ==
    MaskByPosition(s, PH_NO_MASK, PhoneStarts(s),
                   [i \in PhoneStarts(s) |->
                       MatchHere(uae_phone_numbers_pattern, 1, s, i)], 1)

\* "Contact +971 50 1234567 for details"
ExampleContact == TokContact \o TokPhoneSpaced \o TokForDetails

\* "Contact ****PH.NO**** for details"
ExampleContactMasked ==
    <<"C", "o", "n", "t", "a", "c", "t", " ", "*", "*", "*", "*", "P", "H", ".",
      "N", "O", "*", "*", "*", "*", " ", "f", "o", "r", " ", "d", "e", "t", "a",
      "i", "l", "s">>

\* "ID: 784 1234 1234567 1"
ExampleId == TokIdLabel \o TokIdSpaced

\* "ID: ****UAE.ID****"
ExampleIdMasked ==
    <<"I", "D", ":", " ", "*", "*", "*", "*", "U", "A", "E", ".", "I", "D", "*",
      "*", "*", "*">>

\* "Unexpected error during validation"
ExpectedErrorText ==
    <<"U", "n", "e", "x", "p", "e", "c", "t", "e", "d", " ", "e", "r", "r",
      "o", "r", " ", "d", "u", "r", "i", "n", "g", " ", "v", "a", "l", "i",
      "d", "a", "t", "i", "o", "n">>

\* the stage sequences of the state machine, from Start to Decide
FullPaths ==
    { <<"Start", "CheckPhone", "CheckID", "Decide">>,
      <<"Start", "CheckPhone", "RedactPhone", "CheckID", "Decide">>,
      <<"Start", "CheckPhone", "CheckID", "RedactID", "Decide">>,
      <<"Start", "CheckPhone", "RedactPhone", "CheckID", "RedactID", "Decide">> }

IsPrefix(a, b) == Len(a) <= Len(b) /\ SubSeq(b, 1, Len(a)) = a

(***************************************************************************)
(* C1.  An input whose display string holds no match of the phone pattern  *)
(* and no match of the national-ID pattern is accepted, and the payload is *)
(* the original object itself, not its stringified copy.                   *)
(***************************************************************************)
C1_CleanInputPassesThrough ==
    \A c \in Calls :
        (Done(c) /\ Converts(c) /\ ~HasPhone(Text(c)) /\ ~IdPatternMatches(Text(c)))
        => /\ pc[c] = "Accepted"
           /\ verdict[c] = Verdict(TRUE, result[c])
           /\ result[c].type # "str" => verdict[c].payload # PyStr(Text(c))

C1_Witness ==
    /\ pc[1] = "Accepted"
    /\ result[1] = TaskOutput(TokContact \o TokPhoneLandline \o TokForDetails)

(***************************************************************************)
(* C2.  An input holding a phone number is rejected with a payload in      *)
(* which every occurrence of the phone pattern, not only the first, is     *)
(* replaced by ****PH.NO****, so that no character of a matched number     *)
(* remains; the example yields exactly "Contact ****PH.NO**** for details".*)
(***************************************************************************)
C2_EveryPhoneMasked ==
    \A c \in Calls :
        (Done(c) /\ Converts(c) /\ HasPhone(Text(c)))
        => /\ pc[c] = "RejectedRedacted"
           /\ verdict[c] = Verdict(FALSE, PyStr(PhoneMasked(Text(c))))
           /\ ~HasPhone(verdict[c].payload.raw)
           /\ Text(c) = ExampleContact
                => verdict[c].payload = PyStr(ExampleContactMasked)

C2_Witness ==
    /\ pc[1] = "RejectedRedacted"
    /\ Cardinality(PhoneStarts(Text(1))) = 2
    /\ ~HasPhone(verdict[1].payload.raw)

(***************************************************************************)
(* C3.  An input holding a national-ID-shaped string at the start of a     *)
(* line, also one followed by further text or on a later line, is          *)
(* rejected and the payload holds the mask in place of the ID.             *)
(***************************************************************************)
C3_IdAtLineStartMasked ==
    \A c \in Calls :
        (Done(c) /\ Converts(c) /\ HasIdAtLineStart(Text(c)))
        => /\ verdict[c].accepted = FALSE
           /\ verdict[c].payload.type = "str"
           /\ ~HasIdAtLineStart(verdict[c].payload.raw)

(***************************************************************************)
(* C4.  "ID: 784 1234 1234567 1" yields (False, "ID: ****UAE.ID****").     *)
(***************************************************************************)
C4_PrefixedIdMasked ==
    \A c \in Calls :
        (Done(c) /\ result[c] = TaskOutput(ExampleId))
        => verdict[c] = Verdict(FALSE, PyStr(ExampleIdMasked))

(***************************************************************************)
(* C5.  A redacted payload holds no un-redacted phone number and no        *)
(* un-redacted national ID, and the national-ID check has seen the output  *)
(* of the phone redaction.                                                 *)
(***************************************************************************)
C5_NothingSensitiveLeft ==
    \A c \in Calls :
        pc[c] = "RejectedRedacted"
        => /\ ~HasPhone(verdict[c].payload.raw)
           /\ ~HasIdAtLineStart(verdict[c].payload.raw)
           /\ id_input[c] = PhoneMasked(Text(c))

(***************************************************************************)
(* C6.  Redaction is idempotent: validating the payload of a redacting     *)
(* verdict again accepts it and returns it as it is.                       *)
(***************************************************************************)
C6_RedactionIdempotent ==
    (recalled /\ Done(1))
    => /\ pc[1] = "Accepted"
       /\ verdict[1] = Verdict(TRUE, prev)

C6_Witness ==
    /\ recalled
    /\ pc[1] = "Accepted"
    /\ prev = PyStr(PH_NO_MASK \o TokNewline \o PH_NO_MASK)

(***************************************************************************)
(* C7.  A fault raised inside the function is contained: no exception      *)
(* leaves it, and the verdict is exactly                                   *)
(* (False, "Unexpected error during validation").                          *)
(***************************************************************************)
C7_FaultContained ==
    \A c \in Calls :
        /\ pc[c] # "Raised"
        /\ (Done(c) /\ ~Converts(c))
           => /\ pc[c] = "RejectedFault"
              /\ verdict[c] = Verdict(FALSE, PyStr(ExpectedErrorText))

C7_Witness ==
    /\ pc[1] = "RejectedFault"
    /\ result[1] = BadStr("TypeError")
    /\ verdict[1].returned

(***************************************************************************)
(* C8.  Under SpecCrew: the guardrail is invoked once per synthesis        *)
(* attempt; an accepting verdict ends the run as success with no further   *)
(* attempt; a rejecting verdict leads to another attempt only while fewer  *)
(* than 3 retries have been made, so a run makes at most 4 attempts and    *)
(* then stops.                                                             *)
(***************************************************************************)
C8_RetryBounded ==
    /\ retry_count <= 3
    /\ attempts <= 3 + 1
    /\ guardrail_calls <= attempts
    /\ attempts <= guardrail_calls + 1
    /\ crew_pc \in {"guardrail", "success", "failed"} => guardrail_calls = attempts
    /\ crew_pc \in {"validate", "guardrail", "success", "failed"}
          => attempts = retry_count + 1
    /\ crew_pc = "success" => verdict[1].accepted /\ ~ENABLED NextCrew
    /\ crew_pc = "failed"
          => ~verdict[1].accepted /\ retry_count = 3 /\ ~ENABLED NextCrew

C8_Witness ==
    /\ crew_pc = "failed"
    /\ attempts = 4
    /\ guardrail_calls = 4
    /\ pc[1] = "RejectedRedacted"

(***************************************************************************)
(* C9.  Under SpecConc: calls interleaved stage by stage on objects of     *)
(* their own each return what the same call returns when it runs alone,    *)
(* and two calls on equal objects return equal verdicts.                   *)
(***************************************************************************)
C9_CallsIndependent ==
    /\ \A c \in Calls :
          Done(c)
          => /\ check_for_confidential_info(result[c]).outcome = "returned"
             /\ pc[c] # "Raised"
             /\ verdict[c] = check_for_confidential_info(result[c]).verdict
    /\ \A c, d \in Calls :
          (Done(c) /\ Done(d) /\ result[c] = result[d]) => verdict[c] = verdict[d]

C9_Witness ==
    /\ pc[1] = "RejectedRedacted"
    /\ pc[2] = "Accepted"
    /\ result[1] = TaskOutput(TokPhoneSpaced)
    /\ result[2] = TaskOutput(TokContact)

(***************************************************************************)
(* C10, as stated.  Every call runs Start, CheckPhone, the optional phone  *)
(* redaction, CheckID, the optional ID redaction and Decide in that order, *)
(* each once, ends in Accepted, Rejected(redacted) or Rejected(fault), and *)
(* its national-ID check sees the text the phone stage left.               *)
(***************************************************************************)
C10_EveryCallReachesDecide ==
    \A c \in Calls :
        Done(c)
        => /\ trace[c] \in FullPaths
           /\ pc[c] \in {"Accepted", "RejectedRedacted", "RejectedFault"}
           /\ id_input[c] = PhoneMasked(Text(c))

(***************************************************************************)
(* C10, amended.  A call whose string conversion succeeds runs the stages  *)
(* in that order, each once, through Decide, its national-ID check sees    *)
(* the text the phone stage left, and it ends in Accepted or               *)
(* Rejected(redacted).  A call whose string conversion raises leaves       *)
(* Start directly for Rejected(fault) and runs no later stage.  No call    *)
(* repeats a stage.                                                        *)
(***************************************************************************)
C10_StageOrder ==
    \A c \in Calls :
        /\ \E path \in FullPaths : IsPrefix(trace[c], path)
        /\ (Done(c) /\ Converts(c))
           => /\ trace[c] \in FullPaths
              /\ pc[c] \in {"Accepted", "RejectedRedacted"}
              /\ pc[c] = "RejectedRedacted"
                    <=> ("RedactPhone" \in {trace[c][k] : k \in DOMAIN trace[c]}
                         \/ "RedactID" \in {trace[c][k] : k \in DOMAIN trace[c]})
              /\ id_input[c] = PhoneMasked(Text(c))
        /\ (Done(c) /\ ~Converts(c))
           => /\ trace[c] = <<"Start">>
              /\ pc[c] = "RejectedFault"

C10_Witness ==
    /\ pc[1] = "RejectedRedacted"
    /\ trace[1] = <<"Start", "CheckPhone", "RedactPhone", "CheckID", "Decide">>
    /\ id_input[1] = PH_NO_MASK \o TokNewline \o TokIdSpaced

(***************************************************************************)
(* Phone candidates: +971, a gap, a prefix character, a gap, a second      *)
(* character, a gap and a tail of digits, each drawn from a few choices,   *)
(* alone or after a word.  SpecPhone validates one of them.                *)
(***************************************************************************)
PhoneCandidates ==
    { <<"+", "9", "7", "1">> \o a \o <<p>> \o b \o <<d>> \o e \o t :
        a \in {<<>>, <<" ">>, <<"\n">>, <<" ", " ">>},
        p \in {"4", "5", "9"},
        b \in {<<>>, <<" ">>},
        d \in {"0", "U+0663", "x"},
        e \in {<<>>, <<" ">>, <<"\t">>},
        t \in { <<"1", "2", "3", "4", "5", "6">>,
                <<"1", "2", "3", "4", "5", "6", "7">>,
                <<"1", "2", "3", "4", "5", "6", "7", "8">> } }

PhoneInputs ==
    {TaskOutput(w \o t) : w \in {<<>>, TokContact}, t \in PhoneCandidates}

PhoneCall(c) ==
    /\ pc[c] = "Idle"
    /\ \E v \in PhoneInputs : Enter(c, v)
    /\ UNCHANGED << recalled, prev, crewVars, evalVars >>

NextPhone ==
    \/ PhoneCall(1)
    \/ Start(1)
    \/ CheckPhone(1)
    \/ RedactPhone(1)
    \/ CheckID(1)
    \/ Decide(1)

SpecPhone == Init /\ [][NextPhone]_vars

\* position k of s exists and holds a character of S
InSet(s, k, S) == k <= Len(s) /\ s[k] \in S

\* the n positions of s from k on hold characters of S
AllIn(s, k, n, S) == \A j \in k..(k + n - 1) : InSet(s, j, S)

CountryCodeAt(s, i) ==
    i + 3 <= Len(s) /\ SubSeq(s, i, i + 3) = <<"+", "9", "7", "1">>

AsciiDigit == {"0", "1", "2", "3", "4", "5", "6", "7", "8", "9"}

\* +971, optional space, prefix digit, optional space, one digit, 7 digits
StatedPhoneFormatAt(s, i) ==
    /\ CountryCodeAt(s, i)
    /\ \E a, b \in {0, 1} :
          /\ a = 1 => InSet(s, i + 4, {" "})
          /\ InSet(s, i + 4 + a, {"5", "6", "7", "8", "9"})
          /\ b = 1 => InSet(s, i + 5 + a, {" "})
          /\ InSet(s, i + 5 + a + b, AsciiDigit)
          /\ AllIn(s, i + 6 + a + b, 7, AsciiDigit)

\* +971, optional whitespace, prefix digit, one digit, optional whitespace,
\* 7 digits; whitespace and digits as \s and \d take them
ActualPhoneFormatAt(s, i) ==
    /\ CountryCodeAt(s, i)
    /\ \E a, b \in {0, 1} :
          /\ a = 1 => InSet(s, i + 4, Whitespace)
          /\ InSet(s, i + 4 + a, {"5", "6", "7", "8", "9"})
          /\ InSet(s, i + 5 + a, Digit)
          /\ b = 1 => InSet(s, i + 6 + a, Whitespace)
          /\ AllIn(s, i + 6 + a + b, 7, Digit)

\* the stages the call has run
Ran(c) == {trace[c][k] : k \in DOMAIN trace[c]}

(***************************************************************************)
(* C11, as stated.  The phone matcher hits exactly on the texts holding    *)
(* +971, an optional space, a prefix digit in 5..9, an optional space, one *)
(* digit and 7 digits.                                                     *)
(***************************************************************************)
C11_StatedFormat ==
    \A c \in Calls :
        (Done(c) /\ Converts(c))
        => ("RedactPhone" \in Ran(c)
              <=> \E i \in 1..Len(Text(c)) : StatedPhoneFormatAt(Text(c), i))

(***************************************************************************)
(* C11, amended.  The phone matcher hits exactly on the texts holding      *)
(* +971, an optional whitespace character, a prefix digit in 5..9, one     *)
(* digit, an optional whitespace character and 7 digits: the second        *)
(* optional gap comes after the second local digit.                        *)
(***************************************************************************)
C11_ActualFormat ==
    \A c \in Calls :
        (Done(c) /\ Converts(c))
        => ("RedactPhone" \in Ran(c)
              <=> \E i \in 1..Len(Text(c)) : ActualPhoneFormatAt(Text(c), i))

C11_Witness ==
    /\ pc[1] = "RejectedRedacted"
    /\ Text(1) = TokContact \o
                 <<"+", "9", "7", "1", "\n", "9", "U+0663", "\t",
                   "1", "2", "3", "4", "5", "6", "7", "8">>

(***************************************************************************)
(* C12.  A call that gets past the string conversion prints the raw        *)
(* content text, and every redaction, of a phone number and of a national  *)
(* ID alike, has printed its message by the time the verdict is returned;  *)
(* printing touches nothing but the call's own output.                     *)
(***************************************************************************)
C12_EveryRedactionLogged ==
    /\ \A c \in Calls :
          (Done(c) /\ Converts(c))
          => /\ Len(printed[c]) >= 1 /\ printed[c][1] = "content_text"
             /\ "RedactPhone" \in Ran(c)
                   => "msg1" \in {printed[c][k] : k \in DOMAIN printed[c]}
             /\ "RedactID" \in Ran(c)
                   => "msg2" \in {printed[c][k] : k \in DOMAIN printed[c]}
    /\ \A c \in Calls : pc[c] = "Idle" => printed[c] = <<>>

\* the text a finished call hands back: the payload's, or the argument's
\* when the argument itself is returned
OutputText(c) == py_str(verdict[c].payload).val

\* s holds t as a contiguous part
Contains(s, t) ==
    \E i \in 1..(Len(s) - Len(t) + 1) : SubSeq(s, i, i + Len(t) - 1) = t

\* a national-ID-shaped string starts in s after at least one character
HasIdAfterStart(s) ==
    \E i \in 2..Len(s) : MatchHere(national_id_shape, 1, s, i) # 0

(***************************************************************************)
(* C13.  The national-ID pattern is anchored to the start of the whole     *)
(* string: when a national-ID-shaped string is preceded by at least one    *)
(* character, the national-ID check does not match, no ID mask is put in,  *)
(* and the text handed back is the input with at most its phone numbers    *)
(* masked, the ID still in it.                                             *)
(***************************************************************************)
C13_IdAfterStartNotRedacted ==
    \A c \in Calls :
        (Done(c) /\ Converts(c) /\ HasIdAfterStart(Text(c)))
        => /\ "CheckID" \in Ran(c)
           /\ ~IdPatternMatches(id_input[c])
           /\ "RedactID" \notin Ran(c)
           /\ OutputText(c) = PhoneMasked(Text(c))
           /\ ~Contains(OutputText(c), UAE_ID_MASK)
           /\ ~HasPhone(Text(c))
                 => /\ verdict[c] = Verdict(TRUE, result[c])
                    /\ HasIdAfterStart(OutputText(c))

C13_Witness ==
    /\ pc[1] = "RejectedRedacted"
    /\ Text(1) = TokPhoneSpaced \o TokNewline \o TokIdDashed
    /\ OutputText(1) = PH_NO_MASK \o TokNewline \o TokIdDashed

(***************************************************************************)
(* C14.  In one call at most one of the two redactions runs.  Once the     *)
(* phone redaction has run the text holds ****PH.NO**** and the            *)
(* national-ID pattern cannot match it; when the national-ID redaction has *)
(* run, the phone redaction has not and the payload is ****UAE.ID****      *)
(* alone, or followed by one newline.                                      *)
(***************************************************************************)
C14_AtMostOneRedaction ==
    \A c \in Calls :
        /\ ~("RedactPhone" \in Ran(c) /\ "RedactID" \in Ran(c))
        /\ "RedactPhone" \in Ran(c)
              => /\ Contains(content_text[c], PH_NO_MASK)
                 /\ ~IdPatternMatches(content_text[c])
        /\ (Done(c) /\ "RedactID" \in Ran(c))
              => /\ "RedactPhone" \notin Ran(c)
                 /\ verdict[c].accepted = FALSE
                 /\ verdict[c].payload \in
                       {PyStr(UAE_ID_MASK), PyStr(UAE_ID_MASK \o <<"\n">>)}

C14_Witness ==
    /\ pc[1] = "RejectedRedacted"
    /\ "RedactID" \in Ran(1)
    /\ Text(1) = TokIdSpaced \o TokNewline
    /\ verdict[1].payload = PyStr(UAE_ID_MASK \o <<"\n">>)

(***************************************************************************)
(* The evaluation script, src/evaluation/run_ragas_eval.py: main's loop    *)
(* over the golden dataset and run_rag_pipeline.                           *)
(***************************************************************************)
QuestionIds == {"1", "2", "3"}

\* one line of eval_dataset.jsonl
Entry(n) == [question |-> <<"Q", n>>, ground_truth |-> <<"G", n>>]

Datasets ==
    UNION {[1..n -> {Entry(q) : q \in QuestionIds}] : n \in 0..MaxDataset}

\* the answer the crew gives to a query when it gives one
AnswerFor(query) == <<"A">> \o Tail(query)

\* what create_rag_crew(query) and rag_crew.kickoff() may do: return a
\* result, return a result whose string conversion raises, or raise
KickoffOutcomes(query) ==
    { [raises |-> "none", value |-> TaskOutput(AnswerFor(query))],
      [raises |-> "none", value |-> BadStr("TypeError")],
      [raises |-> "ValueError", value |-> None] }

ErrorAnswer == <<"E", "r", "r", "o", "r">>

\* no try around the pipeline: nothing is caught
PipelineCaughtNothing(exc) == FALSE

\* line 57: except Exception as e
PipelineCaught(exc) == exc \in ExceptionClasses

\* run_rag_pipeline(query), given what the crew does for the query
run_rag_pipeline(query, k) ==
    LET conv == IF k.raises # "none" THEN [exc |-> k.raises, val |-> <<>>]
                ELSE py_str(k.value)
    IN  IF conv.exc = "none"
        THEN [outcome |-> "returned",
              value |-> [answer |-> conv.val, contexts |-> <<conv.val>>]]
        ELSE IF PipelineCaught(conv.exc)
        THEN [outcome |-> "returned",
              value |-> [answer |-> ErrorAnswer, contexts |-> <<>>]]
        ELSE [outcome |-> "raised",
              value |-> [answer |-> <<>>, contexts |-> <<>>]]

\* lines 111-117: the dataset is read and the three lists start empty
LoadDataset ==
    /\ eval_pc = "off"
    /\ golden_dataset' \in Datasets
    /\ results' = <<>>
    /\ questions' = <<>>
    /\ ground_truths' = <<>>
    /\ entry_index' = 0
    /\ eval_pc' = "loop"
    /\ UNCHANGED << callVars, recalled, prev, crewVars, kickoffs >>

\* lines 119-128: one pass of the for loop
ProcessEntry ==
    /\ eval_pc = "loop"
    /\ entry_index < Len(golden_dataset)
    /\ LET entry == golden_dataset[entry_index + 1]
       IN  \E k \in KickoffOutcomes(entry.question) :
              LET pipeline_output == run_rag_pipeline(entry.question, k)
              IN  /\ kickoffs' = Append(kickoffs, k)
                  /\ entry_index' = entry_index + 1
                  /\ IF pipeline_output.outcome = "returned"
                     THEN /\ results' = Append(results, pipeline_output.value)
                          /\ questions' = Append(questions, entry.question)
                          /\ ground_truths' =
                                Append(ground_truths, entry.ground_truth)
                          /\ UNCHANGED eval_pc
                     ELSE /\ eval_pc' = "crashed"
                          /\ UNCHANGED << results, questions, ground_truths >>
    /\ UNCHANGED << callVars, recalled, prev, crewVars, golden_dataset >>

\* lines 130-137: the loop is over and evaluation_data is built
BuildEvaluationData ==
    /\ eval_pc = "loop"
    /\ entry_index = Len(golden_dataset)
    /\ eval_pc' = "evaluated"
    /\ UNCHANGED << callVars, recalled, prev, crewVars, golden_dataset,
                    kickoffs, results, questions, ground_truths, entry_index >>

NextEval ==
    \/ LoadDataset
    \/ ProcessEntry
    \/ BuildEvaluationData

SpecEval == Init /\ [][NextEval]_vars

\* the crew failed on the entry: it raised, or its result cannot be printed
Failed(k) == k.raises # "none" \/ k.value.raises # "none"

(***************************************************************************)
(* C15.  run_rag_pipeline never raises for a failing query: it returns     *)
(* {"answer": "Error", "contexts": []}.  So after any number of entries    *)
(* the lists results, questions and ground_truths have that many items,    *)
(* item i of each belongs to entry i of the dataset, and the loop goes on  *)
(* after a failure until every entry is processed.                         *)
(***************************************************************************)
C15_EvalListsAligned ==
    /\ eval_pc # "crashed"
    /\ Len(kickoffs) = entry_index
    /\ Len(results) = entry_index
    /\ Len(questions) = entry_index
    /\ Len(ground_truths) = entry_index
    /\ \A i \in 1..entry_index :
          /\ i <= Len(results) /\ i <= Len(questions) /\ i <= Len(ground_truths)
          /\ questions[i] = golden_dataset[i].question
          /\ ground_truths[i] = golden_dataset[i].ground_truth
          /\ results[i] =
                IF Failed(kickoffs[i])
                THEN [answer |-> <<"E", "r", "r", "o", "r">>, contexts |-> <<>>]
                ELSE [answer |-> AnswerFor(golden_dataset[i].question),
                      contexts |-> <<AnswerFor(golden_dataset[i].question)>>]
    /\ (eval_pc = "loop" /\ entry_index < Len(golden_dataset))
          => ENABLED ProcessEntry
    /\ eval_pc = "evaluated" => entry_index = Len(golden_dataset)

C15_Witness ==
    /\ eval_pc = "evaluated"
    /\ Len(golden_dataset) = 3
    /\ Failed(kickoffs[1])
    /\ kickoffs[2].raises = "ValueError"
    /\ ~Failed(kickoffs[3])
    /\ results[3].answer = AnswerFor(golden_dataset[3].question)

=============================================================================
